---- MODULE Spec2Model ----
(***************************************************************************)
(* Model of the LLM negotiator: src/negotiator.py (state extraction,       *)
(* oracle adapter, response guarantor) and LLMNegotiatorExecutor.execute   *)
(* of src/main.py.                                                         *)
(*                                                                         *)
(* Text is a sequence of tokens.  A token stands for a piece of text that  *)
(* the code treats as a unit:                                              *)
(*   "FJ"  the labelled fence ```json        "F"  a bare fence ```         *)
(*   "{" "}"  braces                         "x"  a character of prose     *)
(*   "_"   whitespace                                                      *)
(*   "P"   the marker Action: PROPOSE                                      *)
(*   "A"   the marker Action: ACCEPT_OR_REJECT                             *)
(*   "Q35" the member "quantities":[3,5]     "Q07" "quantities":[0,7]      *)
(*   "Qn"  the member "quantities":null                                    *)
(*   "Q["  the text "quantities":[ , to be followed by numbers and "]"     *)
(*   "0" .. "5"  a number, with the comma that follows it if any           *)
(*   "On"  the member "current_offer":null                                 *)
(*   "O:"  the key "current_offer": , to be followed by a value            *)
(*   "L"   the array [1]                                                   *)
(*   "acc" the member "accept":true          "rsn" "reason":"r"            *)
(*   "alc" the member "allocation_self":[1]  "err" "error":"e"             *)
(* A member token carries the comma that separates it from its neighbour.  *)
(* Positions are Python's: 0-based, one position per token, -1 for "not    *)
(* found", and a negative slice end counts from the end of the text.       *)
(***************************************************************************)
EXTENDS Integers, Sequences, FiniteSets, TLC

VARIABLES
    message_text,   \* the raw message (context.get_user_input())
    pc,             \* position of the request in execute / the pipeline
    msg_present,    \* context.message is not None
    has_updater,    \* 'updater' in locals()
    action_type,    \* get_action_type(message_text)
    game_state,     \* parse_game_state(message_text)
    result,         \* what call_claude returned
    response,       \* what handle_negotiation_message returned
    exc,            \* the exception in flight or last raised, "none" if none
    oracle_calls,   \* number of client.messages.create calls of this run
    oracle_outcome, \* how the oracle call of this run ended, "none" before it
    updates         \* the completed status updates emitted, in order

vars == <<message_text, pc, msg_present, has_updater, action_type, game_state,
          result, response, exc, oracle_calls, oracle_outcome, updates>>

(***************************************************************************)
(* Bounds of the model.                                                    *)
(***************************************************************************)
MaxMsgLen == 6
MaxPayload == 3
MaxReply == 3
MaxItems == 3

(***************************************************************************)
(* JSON values.                                                            *)
(***************************************************************************)
NoValue == [kind |-> "none"]
JNull == [kind |-> "null"]
JStr(s) == [kind |-> "string", s |-> s]
JBool(b) == [kind |-> "bool", b |-> b]
JArr(e) == [kind |-> "array", elems |-> e]
JObj(i) == [kind |-> "object", items |-> i]
EmptyState == JObj(<<>>)

IsObj(v) == v.kind = "object"

\* key in d
HasKey(d, k) == \E n \in 1..Len(d.items) : d.items[n].key = k

\* d.get(k, default)
Get(d, k, default) ==
    IF HasKey(d, k)
    THEN d.items[CHOOSE n \in 1..Len(d.items) : d.items[n].key = k].val
    ELSE default

\* d[k] = v as json.loads builds an object: a repeated key keeps its place
\* and takes the later value
DictSet(items, k, v) ==
    IF \E n \in 1..Len(items) : items[n].key = k
    THEN [n \in 1..Len(items) |->
            IF items[n].key = k THEN [key |-> k, val |-> v] ELSE items[n]]
    ELSE Append(items, [key |-> k, val |-> v])

(***************************************************************************)
(* Python's str operations, on token sequences.                            *)
(***************************************************************************)
\* whether the text `lit` occurs at a token: "```" also starts "```json"
Matches(tok, lit) ==
    IF lit = "F" THEN tok \in {"F", "FJ"} ELSE tok = lit

\* lit in text
Contains(text, lit) == \E n \in 1..Len(text) : Matches(text[n], lit)

\* text.find(lit, from)
Find(text, lit, from) ==
    LET hits == {p \in from..(Len(text) - 1) : Matches(text[p + 1], lit)}
    IN IF hits = {} THEN -1 ELSE CHOOSE p \in hits : \A q \in hits : p <= q

\* text.rfind(lit)
RFind(text, lit) ==
    LET hits == {p \in 0..(Len(text) - 1) : Matches(text[p + 1], lit)}
    IN IF hits = {} THEN -1 ELSE CHOOSE p \in hits : \A q \in hits : p >= q

\* text[a:b]
Slice(text, a, b) ==
    LET n  == Len(text)
        lo == IF a < 0 THEN (IF n + a < 0 THEN 0 ELSE n + a)
              ELSE (IF a > n THEN n ELSE a)
        hi == IF b < 0 THEN (IF n + b < 0 THEN 0 ELSE n + b)
              ELSE (IF b > n THEN n ELSE b)
    IN IF lo >= hi THEN <<>> ELSE SubSeq(text, lo + 1, hi)

RECURSIVE LStrip(_)
LStrip(text) ==
    IF text # <<>> /\ Head(text) = "_" THEN LStrip(Tail(text)) ELSE text

RECURSIVE RStrip(_)
RStrip(text) ==
    IF text # <<>> /\ text[Len(text)] = "_"
    THEN RStrip(SubSeq(text, 1, Len(text) - 1)) ELSE text

\* text.strip()
Strip(text) == RStrip(LStrip(text))

\* text.startswith(lit)
StartsWith(text, lit) == text # <<>> /\ Matches(Head(text), lit)

(***************************************************************************)
(* json.loads on token sequences.                                          *)
(***************************************************************************)
AtomMembers == {"Q35", "Q07", "Qn", "On", "acc", "rsn", "alc", "err"}

MemberKey(tok) ==
    CASE tok \in {"Q35", "Q07", "Qn"} -> "quantities"
      [] tok = "On"  -> "current_offer"
      [] tok = "acc" -> "accept"
      [] tok = "rsn" -> "reason"
      [] tok = "alc" -> "allocation_self"
      [] tok = "err" -> "error"

MemberVal(tok) ==
    CASE tok = "Q35" -> JArr(<<3, 5>>)
      [] tok = "Q07" -> JArr(<<0, 7>>)
      [] tok \in {"Qn", "On"} -> JNull
      [] tok = "acc" -> JBool(TRUE)
      [] tok = "rsn" -> JStr("r")
      [] tok = "alc" -> JArr(<<1>>)
      [] tok = "err" -> JStr("e")

Numbers == {"0", "1", "2", "3", "4", "5"}

NumberVal(tok) ==
    CASE tok = "0" -> 0 [] tok = "1" -> 1 [] tok = "2" -> 2
      [] tok = "3" -> 3 [] tok = "4" -> 4 [] tok = "5" -> 5

ParseFail == [ok |-> FALSE, val |-> NoValue, rest |-> <<>>]

RECURSIVE ParseValue(_)
RECURSIVE ParseMembers(_, _)
RECURSIVE ParseArray(_, _)

\* the numbers of an array up to its closing bracket
ParseArray(text, elems) ==
    LET t == LStrip(text)
    IN IF t = <<>> THEN ParseFail
       ELSE IF Head(t) = "]" THEN [ok |-> TRUE, val |-> JArr(elems), rest |-> Tail(t)]
       ELSE IF Head(t) \in Numbers
            THEN ParseArray(Tail(t), Append(elems, NumberVal(Head(t))))
       ELSE ParseFail

\* one JSON value at the head of the text, and what follows it
ParseValue(text) ==
    LET t == LStrip(text)
    IN IF t = <<>> THEN ParseFail
       ELSE IF Head(t) = "{" THEN ParseMembers(Tail(t), <<>>)
       ELSE IF Head(t) = "L" THEN [ok |-> TRUE, val |-> JArr(<<1>>), rest |-> Tail(t)]
       ELSE ParseFail

\* the members of an object up to its closing brace
ParseMembers(text, items) ==
    LET t == LStrip(text)
    IN IF t = <<>> THEN ParseFail
       ELSE IF Head(t) = "}" THEN [ok |-> TRUE, val |-> JObj(items), rest |-> Tail(t)]
       ELSE IF Head(t) \in AtomMembers
            THEN ParseMembers(Tail(t), DictSet(items, MemberKey(Head(t)), MemberVal(Head(t))))
       ELSE IF Head(t) = "O:"
            THEN LET v == ParseValue(Tail(t))
                 IN IF v.ok THEN ParseMembers(v.rest, DictSet(items, "current_offer", v.val))
                    ELSE ParseFail
       ELSE IF Head(t) = "Q["
            THEN LET v == ParseArray(Tail(t), <<>>)
                 IN IF v.ok THEN ParseMembers(v.rest, DictSet(items, "quantities", v.val))
                    ELSE ParseFail
       ELSE ParseFail

\* json.loads(text): ok is FALSE where it raises JSONDecodeError
json_loads(text) ==
    LET v == ParseValue(text)
    IN IF v.ok /\ LStrip(v.rest) = <<>> THEN [ok |-> TRUE, val |-> v.val]
       ELSE [ok |-> FALSE, val |-> NoValue]

(***************************************************************************)
(* parse_game_state                                                        *)
(***************************************************************************)
\* the loop of lines 43-52: the end of the object that opens at `start`,
\* or `start` when the depth never returns to 0
RECURSIVE ScanEnd(_, _, _, _)
ScanEnd(text, start, i, depth) ==
    IF i >= Len(text) THEN start
    ELSE IF text[i + 1] = "{" THEN ScanEnd(text, start, i + 1, depth + 1)
    ELSE IF text[i + 1] = "}"
         THEN IF depth - 1 = 0 THEN i + 1
              ELSE ScanEnd(text, start, i + 1, depth - 1)
    ELSE ScanEnd(text, start, i + 1, depth)

\* lines 35-38: the candidate payload of a labelled fence
FencedCandidate(text) ==
    LET start == Find(text, "FJ", 0) + 1
        end   == Find(text, "F", start)
    IN Strip(Slice(text, start, end))

BraceCandidate_Mutant(text) ==
    LET start == Find(text, "{", 0)
        end   == ScanEnd(text, start, 0, 0)
    IN Slice(text, start, end)

\* lines 39-53: the candidate payload from the first brace
BraceCandidate(text) ==
    LET start == Find(text, "{", 0)
        end   == ScanEnd(text, start, start, 0)
    IN Slice(text, start, end)

parse_game_state(text) ==
    IF Contains(text, "FJ")
    THEN LET r == json_loads(FencedCandidate(text))
         IN IF r.ok THEN r.val ELSE EmptyState
    ELSE IF Contains(text, "{")
    THEN LET r == json_loads(BraceCandidate(text))
         IN IF r.ok THEN r.val ELSE EmptyState
    ELSE EmptyState

(***************************************************************************)
(* get_action_type                                                         *)
(***************************************************************************)
get_action_type_Mutant(text) ==
    IF Contains(text, "A") THEN "ACCEPT_OR_REJECT" ELSE "PROPOSE"

get_action_type(text) ==
    IF Contains(text, "P") THEN "PROPOSE"
    ELSE IF Contains(text, "A") THEN "ACCEPT_OR_REJECT"
    ELSE "UNKNOWN"

(***************************************************************************)
(* call_claude                                                             *)
(***************************************************************************)
\* lines 75-103: building the prompt calls game_state.get, and for
\* ACCEPT_OR_REJECT offer.get on game_state.get('current_offer', {}); both
\* are outside the try block and raise AttributeError on a value that is
\* not an object
PromptRaises(gs, at) ==
    \/ ~IsObj(gs)
    \/ at = "ACCEPT_OR_REJECT" /\ ~IsObj(Get(gs, "current_offer", EmptyState))

\* the failure descriptor {"error": msg}
ErrorResult(msg) == JObj(<<[key |-> "error", val |-> JStr(msg)]>>)

\* lines 123-125: {"error": "Could not parse Claude response", "raw": text};
\* the raw text is kept as an opaque string
UnparseableResult ==
    JObj(<<[key |-> "error", val |-> JStr("Could not parse Claude response")],
           [key |-> "raw", val |-> JStr("response_text")]>>)

\* lines 117-122: the text handed to json.loads, if the reply has a brace
ReplyCandidate(response_text) ==
    IF StartsWith(response_text, "{")
    THEN [found |-> TRUE, text |-> response_text]
    ELSE IF Contains(response_text, "{")
    THEN LET start == Find(response_text, "{", 0)
             end   == RFind(response_text, "}") + 1
         IN [found |-> TRUE, text |-> Slice(response_text, start, end)]
    ELSE [found |-> FALSE, text |-> <<>>]

ParseReply_Mutant(reply) ==
    LET c == ReplyCandidate(Strip(reply))
        r == json_loads(c.text)
    IN IF c.found /\ r.ok THEN r.val ELSE EmptyState

\* lines 114-128: the reply text turned into call_claude's return value
ParseReply(reply) ==
    LET c == ReplyCandidate(Strip(reply))
    IN IF c.found
       THEN LET r == json_loads(c.text)
            IN IF r.ok THEN r.val ELSE ErrorResult("JSONDecodeError")
       ELSE UnparseableResult

\* which way lines 117-128 went for a reply
OutcomeKind(reply) ==
    IF ~Contains(reply, "{") THEN "no_brace"
    ELSE IF json_loads(ReplyCandidate(Strip(reply)).text).ok THEN "parsed"
    ELSE "bad_json"

(***************************************************************************)
(* handle_negotiation_message: the fallbacks of lines 150-167               *)
(***************************************************************************)
UnknownDecision ==
    JObj(<<[key |-> "error", val |-> JStr("Unknown action type")],
           [key |-> "action", val |-> JStr("WALK")]>>)

\* an f-string: the fixed text followed by the formatted value
FString(prefix, v) == [kind |-> "fstring", prefix |-> prefix, arg |-> v]

Half_Mutant(q) == (q + 1) \div 2

\* q // 2
Half(q) == q \div 2

\* lines 155-161
FallbackProposal(quantities, cause) ==
    LET half  == [n \in 1..Len(quantities) |-> Half(quantities[n])]
        other == [n \in 1..Len(quantities) |-> quantities[n] - half[n]]
    IN JObj(<<[key |-> "allocation_self", val |-> JArr(half)],
              [key |-> "allocation_other", val |-> JArr(other)],
              [key |-> "reason",
               val |-> FString("Fallback proposal due to error: ", cause)]>>)

\* lines 164-167
FallbackVerdict(cause) ==
    JObj(<<[key |-> "accept", val |-> JBool(FALSE)],
           [key |-> "reason",
            val |-> FString("Fallback rejection due to error: ", cause)]>>)

Returned(v) == [raised |-> "none", val |-> v]
Raised(e) == [raised |-> e, val |-> NoValue]

Guarantor_Mutant(at, gs, res) ==
    IF HasKey(res, "error") \/ ~HasKey(res, "reason")
    THEN Returned(FallbackVerdict(Get(res, "error", JStr("unknown"))))
    ELSE Returned(res)

\* lines 150-169: iterating quantities raises TypeError when it is null
Guarantor(at, gs, res) ==
    IF HasKey(res, "error")
    THEN IF at = "PROPOSE"
         THEN LET quantities == Get(gs, "quantities", JArr(<<1, 1, 1>>))
              IN IF quantities.kind = "array"
                 THEN Returned(FallbackProposal(quantities.elems,
                                                Get(res, "error", JStr("unknown"))))
                 ELSE Raised("TypeError")
         ELSE Returned(FallbackVerdict(Get(res, "error", JStr("unknown"))))
    ELSE Returned(res)

(***************************************************************************)
(* LLMNegotiatorExecutor.execute: the error response of line 77            *)
(***************************************************************************)
ErrorResponse(e) ==
    JObj(<<[key |-> "error", val |-> JStr(e)],
           [key |-> "action", val |-> JStr("WALK")]>>)

(***************************************************************************)
(* Token sequences up to a length.                                         *)
(***************************************************************************)
SeqsUpTo(S, n) == UNION {[1..k -> S] : k \in 0..n}

(***************************************************************************)
(* SpecParse: parse_game_state applied to every message over the tokens    *)
(* that decide it.                                                         *)
(***************************************************************************)
ParseAlphabet == {"FJ", "F", "{", "}", "x", "Q35", "O:"}

InitParse ==
    /\ message_text \in SeqsUpTo(ParseAlphabet, MaxMsgLen)
    /\ pc = "parse"
    /\ msg_present = FALSE
    /\ has_updater = FALSE
    /\ action_type = "none"
    /\ game_state = NoValue
    /\ result = NoValue
    /\ response = NoValue
    /\ exc = "none"
    /\ oracle_calls = 0
    /\ oracle_outcome = "none"
    /\ updates = <<>>

ParseGameState ==
    /\ pc = "parse"
    /\ game_state' = parse_game_state(message_text)
    /\ pc' = "parsed"
    /\ UNCHANGED <<message_text, msg_present, has_updater, action_type, result,
                   response, exc, oracle_calls, oracle_outcome, updates>>

NextParse == ParseGameState

SpecParse == InitParse /\ [][NextParse]_vars

(***************************************************************************)
(* Spec: one call of execute, for every message assembled from a marker,   *)
(* a payload and the way the payload is embedded, and every oracle outcome. *)
(***************************************************************************)
Headers == {<<>>, <<"P">>, <<"A">>, <<"A", "P">>}
PayloadAlphabet == {"{", "}", "Q35", "Q07", "Qn", "On", "L"}
Payloads == SeqsUpTo(PayloadAlphabet, MaxPayload)
Wraps == {"bare", "fenced", "unclosed"}

Assemble(h, w, p) ==
    CASE w = "bare"     -> h \o p
      [] w = "fenced"   -> h \o <<"FJ">> \o p \o <<"F">>
      [] w = "unclosed" -> h \o <<"FJ">> \o p

Messages == {Assemble(h, w, p) : h \in Headers, w \in Wraps, p \in Payloads}

ReplyAlphabet == {"{", "}", "x", "_", "acc", "rsn", "err"}
Replies == SeqsUpTo(ReplyAlphabet, MaxReply)

\* how the oracle call can end once the prompt is built, with what
\* call_claude then returns: the invocation raises, or it replies
OracleOutcomes ==
    {[kind |-> "raised", result |-> ErrorResult("APIConnectionError")]}
    \cup {[kind |-> OutcomeKind(r), result |-> ParseReply(r)] : r \in Replies}

Init ==
    /\ message_text \in Messages
    /\ pc = "execute"
    /\ msg_present = FALSE
    /\ has_updater = FALSE
    /\ action_type = "none"
    /\ game_state = NoValue
    /\ result = NoValue
    /\ response = NoValue
    /\ exc = "none"
    /\ oracle_calls = 0
    /\ oracle_outcome = "none"
    /\ updates = <<>>

\* main.py lines 46-61: with a message, the task is enqueued and the updater
\* created; without one the pipeline is run with no updater
Execute_Begin ==
    /\ pc = "execute"
    /\ \E present \in BOOLEAN :
          /\ msg_present' = present
          /\ has_updater' = present
    /\ pc' = "handle"
    /\ UNCHANGED <<message_text, action_type, game_state, result, response,
                   exc, oracle_calls, oracle_outcome, updates>>

\* negotiator.py lines 141-145
Handle_Extract ==
    /\ pc = "handle"
    /\ action_type' = get_action_type(message_text)
    /\ game_state' = parse_game_state(message_text)
    /\ IF action_type' = "UNKNOWN"
       THEN response' = UnknownDecision /\ pc' = "handled"
       ELSE response' = response /\ pc' = "call_claude"
    /\ UNCHANGED <<message_text, msg_present, has_updater, result, exc,
                   oracle_calls, oracle_outcome, updates>>

\* negotiator.py lines 75-103
CallClaude_Prompt ==
    /\ pc = "call_claude"
    /\ IF PromptRaises(game_state, action_type)
       THEN exc' = "AttributeError" /\ pc' = "except"
       ELSE exc' = exc /\ pc' = "oracle"
    /\ UNCHANGED <<message_text, msg_present, has_updater, action_type,
                   game_state, result, response, oracle_calls, oracle_outcome,
                   updates>>

\* negotiator.py lines 105-128
CallClaude_Oracle ==
    /\ pc = "oracle"
    /\ oracle_calls' = oracle_calls + 1
    /\ \E o \in OracleOutcomes :
          /\ oracle_outcome' = o.kind
          /\ result' = o.result
    /\ pc' = "guarantor"
    /\ UNCHANGED <<message_text, msg_present, has_updater, action_type,
                   game_state, response, exc, updates>>

\* negotiator.py lines 150-169
Handle_Guarantor ==
    /\ pc = "guarantor"
    /\ LET g == Guarantor(action_type, game_state, result)
       IN IF g.raised = "none"
          THEN response' = g.val /\ exc' = exc /\ pc' = "handled"
          ELSE response' = response /\ exc' = g.raised /\ pc' = "except"
    /\ UNCHANGED <<message_text, msg_present, has_updater, action_type,
                   game_state, result, oracle_calls, oracle_outcome, updates>>

\* main.py lines 56-59 (no message: the response is logged and execute
\* returns) and lines 64-73 (the response is sent as a completed update)
Execute_Respond ==
    /\ pc = "handled"
    /\ updates' = IF msg_present THEN Append(updates, response) ELSE updates
    /\ pc' = "done"
    /\ UNCHANGED <<message_text, msg_present, has_updater, action_type,
                   game_state, result, response, exc, oracle_calls,
                   oracle_outcome>>

\* main.py lines 75-82
Execute_Except ==
    /\ pc = "except"
    /\ updates' = IF has_updater THEN Append(updates, ErrorResponse(exc))
                  ELSE updates
    /\ pc' = "done"
    /\ UNCHANGED <<message_text, msg_present, has_updater, action_type,
                   game_state, result, response, exc, oracle_calls,
                   oracle_outcome>>

Next ==
    \/ Execute_Begin
    \/ Handle_Extract
    \/ CallClaude_Prompt
    \/ CallClaude_Oracle
    \/ Handle_Guarantor
    \/ Execute_Respond
    \/ Execute_Except

Spec == Init /\ [][Next]_vars


(***************************************************************************)
(* SpecFallback: the same call of execute, for the messages that carry a   *)
(* marker and an object whose quantities are any sequence of numbers, or   *)
(* null.                                                                   *)
(***************************************************************************)
QuantityTexts ==
    {<<"Qn">>} \cup {<<"Q[">> \o q \o <<"]">> : q \in SeqsUpTo(Numbers, MaxItems)}

QuantityMessages ==
    {h \o <<"{">> \o q \o <<"}">> : h \in {<<"P">>, <<"A">>}, q \in QuantityTexts}

InitFallback ==
    /\ message_text \in QuantityMessages
    /\ pc = "execute"
    /\ msg_present = FALSE
    /\ has_updater = FALSE
    /\ action_type = "none"
    /\ game_state = NoValue
    /\ result = NoValue
    /\ response = NoValue
    /\ exc = "none"
    /\ oracle_calls = 0
    /\ oracle_outcome = "none"
    /\ updates = <<>>

SpecFallback == InitFallback /\ [][Next]_vars

(***************************************************************************)
(* Properties of the pipeline, checked under Spec and SpecFallback.                         *)
(***************************************************************************)
Acting == action_type \in {"PROPOSE", "ACCEPT_OR_REJECT"}

OracleFailed == oracle_outcome \in {"raised", "no_brace", "bad_json"}

\* the keys of an object, in order
Keys(d) == [n \in 1..Len(d.items) |-> d.items[n].key]

\* the field shape the action type requires of the value returned
ShapeOK ==
    CASE action_type = "PROPOSE" ->
            /\ HasKey(response, "allocation_self")
            /\ HasKey(response, "allocation_other")
            /\ HasKey(response, "reason")
      [] action_type = "ACCEPT_OR_REJECT" ->
            /\ HasKey(response, "accept")
            /\ HasKey(response, "reason")
      [] OTHER -> response = UnknownDecision

\* C1: handle_negotiation_message returns to its caller without raising,
\* for every message and every oracle behaviour, and the value returned has
\* the fields its action type requires.
C1_Original ==
    /\ exc = "none"
    /\ pc = "handled" => ShapeOK

\* C2: call_claude never raises: for every game state parse_game_state
\* produces and both action types it returns a decision mapping or a
\* failure descriptor.
C2_Original ==
    /\ exc # "AttributeError"
    /\ pc = "guarantor" => IsObj(result)

\* C3: on a PROPOSE whose oracle result is a failure, for every sequence Q
\* of non-negative integers under "quantities" in the game state, the
\* fallback proposal has allocations of the length of Q with
\* allocation_self[i] = Q[i] // 2 and allocation_self[i] +
\* allocation_other[i] = Q[i] at every index.
C3_FallbackEvenSplit ==
    (/\ pc = "handled"
     /\ action_type = "PROPOSE"
     /\ HasKey(result, "error")
     /\ HasKey(game_state, "quantities")
     /\ Get(game_state, "quantities", JNull).kind = "array")
    => LET Q == Get(game_state, "quantities", JNull).elems
           self == Get(response, "allocation_self", JNull)
           other == Get(response, "allocation_other", JNull)
       IN /\ self.kind = "array" /\ Len(self.elems) = Len(Q)
          /\ other.kind = "array" /\ Len(other.elems) = Len(Q)
          /\ \A i \in 1..Len(Q) :
                /\ self.elems[i] * 2 <= Q[i] /\ Q[i] < self.elems[i] * 2 + 2
                /\ self.elems[i] + other.elems[i] = Q[i]

\* Scenario A: PROPOSE, quantities [3,5], oracle unreachable
C3_Witness ==
    /\ pc = "handled"
    /\ message_text = <<"P", "{", "Q[", "3", "5", "]", "}">>
    /\ action_type = "PROPOSE"
    /\ oracle_outcome = "raised"
    /\ Get(game_state, "quantities", JNull) = JArr(<<3, 5>>)
    /\ Get(response, "allocation_self", JNull) = JArr(<<1, 2>>)
    /\ Get(response, "allocation_other", JNull) = JArr(<<2, 3>>)

\* C4: on an ACCEPT_OR_REJECT, every kind of oracle failure (the invocation
\* raises, the reply has no brace, the extracted object fails to parse)
\* ends in the same fallback: accept is false, a reason is given, and
\* nothing else.
C4_FallbackReject ==
    (pc = "handled" /\ action_type = "ACCEPT_OR_REJECT" /\ OracleFailed)
    => /\ Keys(response) = <<"accept", "reason">>
       /\ Get(response, "accept", JNull) = JBool(FALSE)

\* the oracle replied with text whose extracted object does not parse
C4_Witness ==
    /\ pc = "handled"
    /\ action_type = "ACCEPT_OR_REJECT"
    /\ oracle_outcome = "bad_json"
    /\ Get(response, "accept", JNull) = JBool(FALSE)

C6_PassThrough ==
    (pc = "handled" /\ Acting /\ ~HasKey(result, "error"))
    => response = result

\* Scenario B: ACCEPT_OR_REJECT with a fenced payload, the oracle accepts
C6_Witness ==
    /\ pc = "handled"
    /\ action_type = "ACCEPT_OR_REJECT"
    /\ Contains(message_text, "FJ")
    /\ HasKey(game_state, "quantities")
    /\ result = JObj(<<[key |-> "accept", val |-> JBool(TRUE)]>>)
    /\ response = result

\* C9: on a PROPOSE or ACCEPT_OR_REJECT run, whatever the oracle does, the
\* response sent back has no 'error' field.
C9_Original ==
    Acting => \A n \in 1..Len(updates) : ~HasKey(updates[n], "error")

\* C10: every call of execute ends with exactly one completed status update
\* emitted, never zero and never two.
C10_Original ==
    /\ Len(updates) <= 1
    /\ pc = "done" => Len(updates) = 1

(***************************************************************************)
(* Properties of parse_game_state, checked under SpecParse.                *)
(***************************************************************************)
\* text that is not payload: prose, bare fences and braces none of which
\* is matched inside the text
UnrelatedText(pre) ==
    /\ \A n \in 1..Len(pre) : pre[n] \in {"x", "F", "{", "}"}
    /\ \A m, n \in 1..Len(pre) : ~(m < n /\ pre[m] = "{" /\ pre[n] = "}")

\* a brace object that parses
IsObjectText(pay) ==
    pay # <<>> /\ Head(pay) = "{" /\ json_loads(pay).ok

NoPayload(text) == ~Contains(text, "FJ") /\ ~Contains(text, "{")

FenceUnclosed(text) ==
    /\ Contains(text, "FJ")
    /\ ~Contains(SubSeq(text, Find(text, "FJ", 0) + 2, Len(text)), "F")

DepthNeverZero(text) ==
    /\ ~Contains(text, "FJ") /\ Contains(text, "{")
    /\ BraceCandidate(text) = <<>>

CandidateFails(text) ==
    \/ Contains(text, "FJ") /\ ~json_loads(FencedCandidate(text)).ok
    \/ /\ ~Contains(text, "FJ") /\ Contains(text, "{")
       /\ ~json_loads(BraceCandidate(text)).ok

\* C8: parse_game_state never raises, and returns the empty state when the
\* message has neither a labelled fence nor a brace, when the fence has no
\* closing marker, when the brace depth never returns to 0, or when the
\* candidate payload fails to parse.
C8_Original ==
    pc = "parsed" =>
        /\ exc = "none"
        /\ (\/ NoPayload(message_text)
            \/ FenceUnclosed(message_text)
            \/ DepthNeverZero(message_text)
            \/ CandidateFails(message_text))
           => game_state = EmptyState

====
